---- MODULE Spec2Model ----
(***************************************************************************)
(* A model of the attribute value of lslib (NodeAttribute.go): the tagged  *)
(* (Name, Type, Value) triple, its conversion from text (FromString), to   *)
(* text (String) and to XML (MarshalXML), and the data type registry       *)
(* (GetRows, GetColumns, IsNumeric).                                       *)
(*                                                                         *)
(* A Go string is a sequence of one-character strings, so that splitting,  *)
(* parsing and formatting are computed character by character.  An integer *)
(* is a sign and a little-endian sequence of decimal digits (Big), so that *)
(* the 16, 32 and 64 bit limits of strconv are the real ones.              *)
(***************************************************************************)
EXTENDS Integers, Sequences, FiniteSets, TLC

VARIABLES na, op, arg, err, out, crashed

vars == <<na, op, arg, err, out, crashed>>

----------------------------------------------------------------------------
(* Bounds of the model.                                                    *)

\* Every text over Alphabet of at most MaxLen characters is an input.
MaxLen == 2

----------------------------------------------------------------------------
(* Characters.                                                             *)

DecDigits == <<"0", "1", "2", "3", "4", "5", "6", "7", "8", "9">>

LowerLetters == <<"a", "b", "c", "d", "e", "f", "g", "h", "i", "j", "k", "l", "m",
                  "n", "o", "p", "q", "r", "s", "t", "u", "v", "w", "x", "y", "z">>

UpperLetters == <<"A", "B", "C", "D", "E", "F", "G", "H", "I", "J", "K", "L", "M",
                  "N", "O", "P", "Q", "R", "S", "T", "U", "V", "W", "X", "Y", "Z">>

\* The printable ASCII characters in code order; Printable[i] has code i + 31.
\* The double quote, the backslash and the backquote are written by name.
Printable == <<" ", "!", "dquote", "#", "$", "%", "&", "'", "(", ")", "*", "+", ",", "-", ".", "/">>
             \o DecDigits \o <<":", ";", "<", "=", ">", "?", "@">>
             \o UpperLetters \o <<"[", "backslash", "]", "^", "_", "backquote">>
             \o LowerLetters \o <<"{", "|", "}", "~">>

Range(s) == {s[i] : i \in DOMAIN s}

IndexOf(s, c) == CHOOSE i \in DOMAIN s : s[i] = c

IsDigit(c) == c \in Range(DecDigits)

IsLetter(c) == c \in Range(LowerLetters) \cup Range(UpperLetters)

\* strconv's lower(c): c | ('x' - 'X').
Lower(c) == IF c \in Range(UpperLetters) THEN LowerLetters[IndexOf(UpperLetters, c)] ELSE c

\* The value of a digit or letter in ParseUint's loop.
DigitVal(c) == IF IsDigit(c) THEN IndexOf(DecDigits, c) - 1
               ELSE IndexOf(LowerLetters, Lower(c)) + 9

\* []byte(str) of an ASCII text: the code of each character.
ByteOf(c) == IndexOf(Printable, c) + 31

CharOf(b) == Printable[b - 31]

RECURSIVE Concat(_)
Concat(ss) == IF ss = <<>> THEN <<>> ELSE Head(ss) \o Concat(Tail(ss))

----------------------------------------------------------------------------
(* Unbounded naturals: little-endian decimal digits, no leading zero, zero *)
(* is the empty sequence.                                                  *)

RECURSIVE N10MulAdd(_, _, _)
N10MulAdd(a, b, c) ==
    IF a = <<>>
    THEN IF c = 0 THEN <<>> ELSE <<c % 10>> \o N10MulAdd(<<>>, b, c \div 10)
    ELSE LET t == Head(a) * b + c IN <<t % 10>> \o N10MulAdd(Tail(a), b, t \div 10)

RECURSIVE N10CmpFrom(_, _, _)
N10CmpFrom(a, b, i) ==
    IF i = 0 THEN 0
    ELSE IF a[i] < b[i] THEN -1
    ELSE IF a[i] > b[i] THEN 1
    ELSE N10CmpFrom(a, b, i - 1)

N10Cmp(a, b) ==
    IF Len(a) < Len(b) THEN -1
    ELSE IF Len(a) > Len(b) THEN 1
    ELSE N10CmpFrom(a, b, Len(a))

RECURSIVE N10Strip(_)
N10Strip(a) == IF a # <<>> /\ a[Len(a)] = 0 THEN N10Strip(SubSeq(a, 1, Len(a) - 1)) ELSE a

\* a - 1, for a > 0.
RECURSIVE N10DecRaw(_)
N10DecRaw(a) == IF Head(a) > 0 THEN <<Head(a) - 1>> \o Tail(a)
                ELSE <<9>> \o N10DecRaw(Tail(a))

N10Dec(a) == N10Strip(N10DecRaw(a))

RECURSIVE N10Pow2(_)
N10Pow2(n) == IF n = 0 THEN <<1>>
              ELSE IF n >= 8 THEN N10MulAdd(N10Pow2(n - 8), 256, 0)
              ELSE N10MulAdd(N10Pow2(n - 1), 2, 0)

RECURSIVE N10OfNat(_)
N10OfNat(n) == IF n = 0 THEN <<>> ELSE <<n % 10>> \o N10OfNat(n \div 10)

RECURSIVE N10Digits(_)
N10Digits(a) == IF a = <<>> THEN <<>> ELSE N10Digits(Tail(a)) \o <<DecDigits[Head(a) + 1]>>

\* The decimal numeral of a natural (strconv.FormatUint in base 10).
N10Text(a) == IF a = <<>> THEN <<"0">> ELSE N10Digits(a)

\* The bit sizes strconv is called with, and their powers of two.
BitSizes == {7, 8, 15, 16, 31, 32, 63, 64}

Pow2 == [b \in BitSizes |-> N10Pow2(b)]

\* A signed integer: Go has no negative zero.
Big(neg, mag) == [neg |-> neg /\ mag # <<>>, mag |-> mag]

BigText(b) == (IF b.neg THEN <<"-">> ELSE <<>>) \o N10Text(b.mag)

----------------------------------------------------------------------------
(* Errors.  A Go error is a record; NoErr is the nil error.                *)

NoErr == [e |-> "nil"]

ErrSyntax == [e |-> "strconv.ErrSyntax"]

ErrRange == [e |-> "strconv.ErrRange"]

----------------------------------------------------------------------------
(* strconv.ParseUint and strconv.ParseInt, on texts without '_'.           *)

\* The loop of ParseUint over the digits s[i..], n the number read so far.
RECURSIVE ParseUintLoop(_, _, _, _, _)
ParseUintLoop(s, i, base, bitSize, n) ==
    IF i > Len(s) THEN [v |-> n, err |-> NoErr]
    ELSE IF ~(IsDigit(s[i]) \/ IsLetter(s[i])) THEN [v |-> <<>>, err |-> ErrSyntax]
    ELSE IF DigitVal(s[i]) >= base THEN [v |-> <<>>, err |-> ErrSyntax]
    ELSE LET n1 == N10MulAdd(n, base, DigitVal(s[i]))
         IN  IF N10Cmp(n1, Pow2[bitSize]) >= 0
             THEN [v |-> N10Dec(Pow2[bitSize]), err |-> ErrRange]
             ELSE ParseUintLoop(s, i + 1, base, bitSize, n1)

\* base 0: the prefix of s chooses the base (0b, 0o, 0x, or a leading 0 for octal).
ParseUint(s, base, bitSize) ==
    IF s = <<>> THEN [v |-> <<>>, err |-> ErrSyntax]
    ELSE IF base # 0 THEN ParseUintLoop(s, 1, base, bitSize, <<>>)
    ELSE IF s[1] # "0" THEN ParseUintLoop(s, 1, 10, bitSize, <<>>)
    ELSE IF Len(s) >= 3 /\ Lower(s[2]) = "b" THEN ParseUintLoop(s, 3, 2, bitSize, <<>>)
    ELSE IF Len(s) >= 3 /\ Lower(s[2]) = "o" THEN ParseUintLoop(s, 3, 8, bitSize, <<>>)
    ELSE IF Len(s) >= 3 /\ Lower(s[2]) = "x" THEN ParseUintLoop(s, 3, 16, bitSize, <<>>)
    ELSE ParseUintLoop(s, 2, 8, bitSize, <<>>)

\* The sign is cut off, the rest is read by ParseUint, and the result is
\* checked against the cutoff 2^(bitSize-1).
ParseInt(s, base, bitSize) ==
    IF s = <<>> THEN [v |-> Big(FALSE, <<>>), err |-> ErrSyntax]
    ELSE LET neg == s[1] = "-"
             rest == IF s[1] \in {"+", "-"} THEN Tail(s) ELSE s
             cutoff == Pow2[bitSize - 1]
             Signed(un) ==
                 IF un.err = ErrSyntax THEN [v |-> Big(FALSE, <<>>), err |-> ErrSyntax]
                 ELSE IF ~neg /\ N10Cmp(un.v, cutoff) >= 0
                 THEN [v |-> Big(FALSE, N10Dec(cutoff)), err |-> ErrRange]
                 ELSE IF neg /\ N10Cmp(un.v, cutoff) > 0
                 THEN [v |-> Big(TRUE, cutoff), err |-> ErrRange]
                 ELSE [v |-> Big(neg, un.v), err |-> NoErr]
         IN  Signed(ParseUint(rest, base, bitSize))

\* strconv.ParseBool: the accepted literals.
BoolTrue == {<<"1">>, <<"t">>, <<"T">>, <<"T", "R", "U", "E">>, <<"t", "r", "u", "e">>,
             <<"T", "r", "u", "e">>}

BoolFalse == {<<"0">>, <<"f">>, <<"F">>, <<"F", "A", "L", "S", "E">>,
              <<"f", "a", "l", "s", "e">>, <<"F", "a", "l", "s", "e">>}

ParseBool(s) ==
    IF s \in BoolTrue THEN [v |-> TRUE, err |-> NoErr]
    ELSE IF s \in BoolFalse THEN [v |-> FALSE, err |-> NoErr]
    ELSE [v |-> FALSE, err |-> ErrSyntax]

----------------------------------------------------------------------------
(* Floating point.  A float is a class (num, inf, nan), a sign and, for a  *)
(* num, the decimal m * 10^e with m not a multiple of 10.  A decimal of at *)
(* most 6 (float32) or 15 (float64) significant digits inside the normal   *)
(* range is held exactly by strconv's parse-then-shortest-format, so this  *)
(* is exact on the texts the model feeds it; they carry no '_' and no      *)
(* hexadecimal 'p' exponent.                                               *)

RECURSIVE FltNorm(_, _, _)
FltNorm(neg, m, e) ==
    IF m = <<>> THEN [cls |-> "num", neg |-> neg, m |-> <<>>, e |-> 0]
    ELSE IF Head(m) = 0 THEN FltNorm(neg, Tail(m), e + 1)
    ELSE [cls |-> "num", neg |-> neg, m |-> m, e |-> e]

FltInf(neg) == [cls |-> "inf", neg |-> neg, m |-> <<>>, e |-> 0]

FltNaN == [cls |-> "nan", neg |-> FALSE, m |-> <<>>, e |-> 0]

FltZero == FltNorm(FALSE, <<>>, 0)

LowerText(s) == [i \in DOMAIN s |-> Lower(s[i])]

\* readFloat's mantissa loop: digits with at most one point.
RECURSIVE ReadMantissa(_, _, _, _, _, _)
ReadMantissa(s, i, sawdot, sawdigits, m, frac) ==
    IF i > Len(s) THEN [i |-> i, sawdigits |-> sawdigits, m |-> m, frac |-> frac]
    ELSE IF s[i] = "." /\ ~sawdot THEN ReadMantissa(s, i + 1, TRUE, sawdigits, m, frac)
    ELSE IF IsDigit(s[i])
    THEN ReadMantissa(s, i + 1, sawdot, TRUE, N10MulAdd(m, 10, DigitVal(s[i])),
                      IF sawdot THEN frac + 1 ELSE frac)
    ELSE [i |-> i, sawdigits |-> sawdigits, m |-> m, frac |-> frac]

RECURSIVE ReadExpDigits(_, _, _)
ReadExpDigits(s, i, x) ==
    IF i <= Len(s) /\ IsDigit(s[i])
    THEN ReadExpDigits(s, i + 1, IF x < 10000 THEN x * 10 + DigitVal(s[i]) ELSE x)
    ELSE [ok |-> TRUE, i |-> i, x |-> x]

\* readFloat's optional exponent at s[i]: e, a sign, at least one digit.
ReadExponent(s, i) ==
    IF ~(i <= Len(s) /\ Lower(s[i]) = "e") THEN [ok |-> TRUE, i |-> i, x |-> 0]
    ELSE LET j == IF i + 1 <= Len(s) /\ s[i + 1] \in {"+", "-"} THEN i + 2 ELSE i + 1
             minus == i + 1 <= Len(s) /\ s[i + 1] = "-"
         IN  IF j > Len(s) \/ ~IsDigit(s[j]) THEN [ok |-> FALSE, i |-> i, x |-> 0]
             ELSE LET r == ReadExpDigits(s, j, 0)
                  IN  [ok |-> TRUE, i |-> r.i, x |-> IF minus THEN 0 - r.x ELSE r.x]

\* The largest finite values: 3.40282e38 and 1.79769313486231e308 at the
\* precision of the model.
FloatMaxDigits(bitSize) ==
    IF bitSize = 32 THEN N10OfNat(340282)
    ELSE N10MulAdd(N10OfNat(179769313), 1000000, 486231)

FloatMaxExp(bitSize) == IF bitSize = 32 THEN 38 ELSE 308

RECURSIVE N10Shift(_, _)
N10Shift(a, k) == IF k = 0 \/ a = <<>> THEN a ELSE N10Shift(<<0>> \o a, k - 1)

FloatOverflows(f, bitSize) ==
    LET top == Len(f.m) + f.e - 1
        k == Len(FloatMaxDigits(bitSize))
        lead == IF Len(f.m) <= k THEN N10Shift(f.m, k - Len(f.m))
                ELSE SubSeq(f.m, Len(f.m) - k + 1, Len(f.m))
    IN  /\ f.m # <<>>
        /\ \/ top > FloatMaxExp(bitSize)
           \/ top = FloatMaxExp(bitSize) /\ N10Cmp(lead, FloatMaxDigits(bitSize)) > 0

Inf3 == <<"i", "n", "f">>

Inf8 == <<"i", "n", "f", "i", "n", "i", "t", "y">>

\* strconv.ParseFloat: special values, then readFloat, then the whole text
\* must have been consumed; overflow gives an infinity and ErrRange.
ParseFloat(s, bitSize) ==
    IF s = <<>> THEN [v |-> FltZero, err |-> ErrSyntax]
    ELSE LET neg == s[1] = "-"
             signed == s[1] \in {"+", "-"}
             start == IF signed THEN 2 ELSE 1
             body == LowerText(SubSeq(s, start, Len(s)))
         IN  IF body \in {Inf3, Inf8} THEN [v |-> FltInf(neg), err |-> NoErr]
             ELSE IF ~signed /\ body = <<"n", "a", "n">> THEN [v |-> FltNaN, err |-> NoErr]
             ELSE IF Len(body) > 2 /\ body[1] = "0" /\ body[2] = "x"
             THEN [v |-> FltZero, err |-> ErrSyntax]
             ELSE LET mant == ReadMantissa(s, start, FALSE, FALSE, <<>>, 0)
                      ex == ReadExponent(s, mant.i)
                      f == FltNorm(neg, mant.m, ex.x - mant.frac)
                  IN  IF ~mant.sawdigits \/ ~ex.ok \/ ex.i <= Len(s)
                      THEN [v |-> FltZero, err |-> ErrSyntax]
                      ELSE IF FloatOverflows(f, bitSize)
                      THEN [v |-> FltInf(neg), err |-> ErrRange]
                      ELSE [v |-> f, err |-> NoErr]

Zeros(k) == [i \in 1..k |-> "0"]

Sign(f) == IF f.neg THEN <<"-">> ELSE <<>>

\* The digits of a num with the decimal point placed (format 'f', shortest).
FixedText(f) ==
    LET ds == N10Digits(f.m)
    IN  IF f.m = <<>> THEN <<"0">>
        ELSE IF f.e >= 0 THEN ds \o Zeros(f.e)
        ELSE IF Len(ds) > 0 - f.e
        THEN SubSeq(ds, 1, Len(ds) + f.e) \o <<".">> \o SubSeq(ds, Len(ds) + f.e + 1, Len(ds))
        ELSE <<"0", ".">> \o Zeros(0 - f.e - Len(ds)) \o ds

\* strconv.FormatFloat(v, 'f', -1, bitSize).
FormatFloat(f, bitSize) ==
    IF f.cls = "nan" THEN <<"N", "a", "N">>
    ELSE IF f.cls = "inf" THEN (IF f.neg THEN <<"-">> ELSE <<"+">>) \o <<"I", "n", "f">>
    ELSE Sign(f) \o FixedText(f)

\* The exponent of format 'e': a sign and at least two digits.
ExpText(x) ==
    LET a == IF x < 0 THEN 0 - x ELSE x
    IN  <<"e", IF x < 0 THEN "-" ELSE "+">> \o (IF a < 10 THEN <<"0">> ELSE <<>>)
        \o N10Text(N10OfNat(a))

\* fmt's %v of a float64: format 'g', shortest; the exponent form is used
\* when the decimal exponent is below -4 or at least 6.
FormatG(f) ==
    LET ds == N10Digits(f.m)
        x == Len(ds) + f.e - 1
    IN  IF f.cls # "num" \/ f.m = <<>> \/ (x >= -4 /\ x < 6) THEN FormatFloat(f, 64)
        ELSE Sign(f) \o <<Head(ds)>> \o (IF Len(ds) > 1 THEN <<".">> \o Tail(ds) ELSE <<>>)
             \o ExpText(x)

----------------------------------------------------------------------------
(* strings.Split, encoding/base64 (StdEncoding) and uuid.Parse.            *)

\* strings.Split(s, sep) for a one-character sep: always at least one piece.
RECURSIVE SplitFrom(_, _, _, _)
SplitFrom(s, sep, i, cur) ==
    IF i > Len(s) THEN <<cur>>
    ELSE IF s[i] = sep THEN <<cur>> \o SplitFrom(s, sep, i + 1, <<>>)
    ELSE SplitFrom(s, sep, i + 1, Append(cur, s[i]))

Split(s, sep) == SplitFrom(s, sep, 1, <<>>)

B64Alphabet == UpperLetters \o LowerLetters \o DecDigits \o <<"+", "/">>

IsB64(c) == c \in Range(B64Alphabet)

B64Val(c) == IndexOf(B64Alphabet, c) - 1

ErrBase64 == [e |-> "base64.CorruptInputError"]

\* The bytes of one quantum of n characters (n in 2..4) followed by padding.
B64Quantum(q) ==
    LET x == B64Val(q[1]) * 262144 + B64Val(q[2]) * 4096
             + (IF Len(q) >= 3 THEN B64Val(q[3]) * 64 ELSE 0)
             + (IF Len(q) >= 4 THEN B64Val(q[4]) ELSE 0)
        bs == <<x \div 65536, (x \div 256) % 256, x % 256>>
    IN  SubSeq(bs, 1, Len(q) - 1)

\* DecodeString: quantum by quantum; on corrupt input the bytes of the
\* quanta decoded so far are returned with the error.
RECURSIVE B64Decode(_, _, _)
B64Decode(s, i, acc) ==
    LET left == Len(s) - i + 1
        q == SubSeq(s, i, Len(s))
    IN  IF left = 0 THEN [v |-> acc, err |-> NoErr]
        ELSE IF left < 4 \/ ~IsB64(q[1]) \/ ~IsB64(q[2]) THEN [v |-> acc, err |-> ErrBase64]
        ELSE IF IsB64(q[3]) /\ IsB64(q[4])
        THEN B64Decode(s, i + 4, acc \o B64Quantum(SubSeq(q, 1, 4)))
        ELSE IF left = 4 /\ IsB64(q[3]) /\ q[4] = "="
        THEN [v |-> acc \o B64Quantum(SubSeq(q, 1, 3)), err |-> NoErr]
        ELSE IF left = 4 /\ q[3] = "=" /\ q[4] = "="
        THEN [v |-> acc \o B64Quantum(SubSeq(q, 1, 2)), err |-> NoErr]
        ELSE [v |-> acc, err |-> ErrBase64]

DecodeString(s) == B64Decode(s, 1, <<>>)

RECURSIVE EncodeToString(_)
EncodeToString(bs) ==
    IF bs = <<>> THEN <<>>
    ELSE LET n == IF Len(bs) >= 3 THEN 3 ELSE Len(bs)
             x == bs[1] * 65536 + (IF n >= 2 THEN bs[2] * 256 ELSE 0)
                  + (IF n >= 3 THEN bs[3] ELSE 0)
             cs == <<B64Alphabet[(x \div 262144) + 1], B64Alphabet[((x \div 4096) % 64) + 1],
                     B64Alphabet[((x \div 64) % 64) + 1], B64Alphabet[(x % 64) + 1]>>
         IN  SubSeq(cs, 1, n + 1) \o [k \in 1..(3 - n) |-> "="]
             \o EncodeToString(SubSeq(bs, n + 1, Len(bs)))

IsHex(c) == IsDigit(c) \/ Lower(c) \in {"a", "b", "c", "d", "e", "f"}

ErrUUID == [e |-> "invalid UUID format"]

ErrUUIDLength == [e |-> "invalid UUID length"]

ErrUUIDPrefix == [e |-> "invalid urn prefix"]

\* The text positions of the 16 bytes, with and without dashes.
UUIDDashed == <<1, 3, 5, 7, 10, 12, 15, 17, 20, 22, 25, 27, 29, 31, 33, 35>>

UUIDPlain == [i \in 1..16 |-> 2 * i - 1]

\* The bytes are filled in until the first pair that is not hexadecimal;
\* the array filled so far is returned with the error.
RECURSIVE UUIDBytes(_, _, _, _)
UUIDBytes(s, at, i, acc) ==
    IF i > 16 THEN [v |-> acc, err |-> NoErr]
    ELSE IF ~(IsHex(s[at[i]]) /\ IsHex(s[at[i] + 1]))
    THEN [v |-> acc \o [k \in 1..(17 - i) |-> 0], err |-> ErrUUID]
    ELSE UUIDBytes(s, at, i + 1, Append(acc, DigitVal(s[at[i]]) * 16 + DigitVal(s[at[i] + 1])))

NilUUID == [i \in 1..16 |-> 0]

\* uuid.Parse: 36 characters, or 45 with urn:uuid:, or 38 in braces, or 32
\* without dashes.
UUIDParse(s) ==
    LET t == IF Len(s) = 45 THEN SubSeq(s, 10, 45)
             ELSE IF Len(s) = 38 THEN SubSeq(s, 2, 38) ELSE s
    IN  IF Len(s) = 32 THEN UUIDBytes(s, UUIDPlain, 1, <<>>)
        ELSE IF Len(s) \notin {36, 38, 45} THEN [v |-> NilUUID, err |-> ErrUUIDLength]
        ELSE IF Len(s) = 45 /\ LowerText(SubSeq(s, 1, 9))
                                # <<"u", "r", "n", ":", "u", "u", "i", "d", ":">>
        THEN [v |-> NilUUID, err |-> ErrUUIDPrefix]
        ELSE IF t[9] # "-" \/ t[14] # "-" \/ t[19] # "-" \/ t[24] # "-"
        THEN [v |-> NilUUID, err |-> ErrUUID]
        ELSE UUIDBytes(t, UUIDDashed, 1, <<>>)

HexDigits == DecDigits \o <<"a", "b", "c", "d", "e", "f">>

HexByte(b) == <<HexDigits[(b \div 16) + 1], HexDigits[(b % 16) + 1]>>

RECURSIVE HexBytes(_)
HexBytes(bs) == IF bs = <<>> THEN <<>> ELSE HexByte(Head(bs)) \o HexBytes(Tail(bs))

\* UUID.String(): xxxxxxxx-xxxx-xxxx-xxxx-xxxxxxxxxxxx.
UUIDString(u) ==
    HexBytes(SubSeq(u, 1, 4)) \o <<"-">> \o HexBytes(SubSeq(u, 5, 6)) \o <<"-">>
    \o HexBytes(SubSeq(u, 7, 8)) \o <<"-">> \o HexBytes(SubSeq(u, 9, 10)) \o <<"-">>
    \o HexBytes(SubSeq(u, 11, 16))

----------------------------------------------------------------------------
(* The data type registry.                                                 *)

DT_None == 0

DT_Byte == 1

DT_Short == 2

DT_UShort == 3

DT_Int == 4

DT_UInt == 5

DT_Float == 6

DT_Double == 7

DT_IVec2 == 8

DT_IVec3 == 9

DT_IVec4 == 10

DT_Vec2 == 11

DT_Vec3 == 12

DT_Vec4 == 13

DT_Mat2 == 14

DT_Mat3 == 15

DT_Mat3x4 == 16

DT_Mat4x3 == 17

DT_Mat4 == 18

DT_Bool == 19

DT_String == 20

DT_Path == 21

DT_FixedString == 22

DT_LSString == 23

DT_ULongLong == 24

DT_ScratchBuffer == 25

DT_Long == 26

DT_Int8 == 27

DT_TranslatedString == 28

DT_WString == 29

DT_LSWString == 30

DT_UUID == 31

DT_Int64 == 32

DT_TranslatedFSString == 33

DT_Max == 33

\* The kinds of the registry and one ordinal outside it.
Kinds == DT_None..(DT_Max + 1)

\* DataType.String().
DataTypeString(dt) ==
    CASE
         dt = DT_None -> "None"
      [] dt = DT_Byte -> "uint8"
      [] dt = DT_Short -> "int16"
      [] dt = DT_UShort -> "uint16"
      [] dt = DT_Int -> "int32"
      [] dt = DT_UInt -> "uint32"
      [] dt = DT_Float -> "float"
      [] dt = DT_Double -> "double"
      [] dt = DT_IVec2 -> "ivec2"
      [] dt = DT_IVec3 -> "ivec3"
      [] dt = DT_IVec4 -> "ivec4"
      [] dt = DT_Vec2 -> "fvec2"
      [] dt = DT_Vec3 -> "fvec3"
      [] dt = DT_Vec4 -> "fvec4"
      [] dt = DT_Mat2 -> "mat2x2"
      [] dt = DT_Mat3 -> "mat3x3"
      [] dt = DT_Mat3x4 -> "mat3x4"
      [] dt = DT_Mat4x3 -> "mat4x3"
      [] dt = DT_Mat4 -> "mat4x4"
      [] dt = DT_Bool -> "bool"
      [] dt = DT_String -> "string"
      [] dt = DT_Path -> "path"
      [] dt = DT_FixedString -> "FixedString"
      [] dt = DT_LSString -> "LSString"
      [] dt = DT_ULongLong -> "uint64"
      [] dt = DT_ScratchBuffer -> "ScratchBuffer"
      [] dt = DT_Long -> "old_int64"
      [] dt = DT_Int8 -> "int8"
      [] dt = DT_TranslatedString -> "TranslatedString"
      [] dt = DT_WString -> "WString"
      [] dt = DT_LSWString -> "LSWString"
      [] dt = DT_UUID -> "guid"
      [] dt = DT_Int64 -> "int64"
      [] dt = DT_TranslatedFSString -> "TranslatedFSString"
      [] OTHER -> ""

IVecKinds == {DT_IVec2, DT_IVec3, DT_IVec4}

VecKinds == {DT_Vec2, DT_Vec3, DT_Vec4}

MatKinds == {DT_Mat2, DT_Mat3, DT_Mat3x4, DT_Mat4x3, DT_Mat4}

StringKinds == {DT_String, DT_Path, DT_FixedString, DT_LSString, DT_WString, DT_LSWString}

ErrNoRows == [e |-> "Data type does not have rows"]

ErrNoColumns == [e |-> "Data type does not have columns"]

\* DataType.GetRows().
GetRows(dt) ==
    IF dt \in IVecKinds \cup VecKinds THEN [v |-> 1, err |-> NoErr]
    ELSE IF dt = DT_Mat2 THEN [v |-> 2, err |-> NoErr]
    ELSE IF dt \in {DT_Mat3, DT_Mat3x4} THEN [v |-> 3, err |-> NoErr]
    ELSE IF dt \in {DT_Mat4x3, DT_Mat4} THEN [v |-> 4, err |-> NoErr]
    ELSE [v |-> 0, err |-> ErrNoRows]

\* DataType.GetColumns().
GetColumns(dt) ==
    IF dt \in {DT_IVec2, DT_Vec2, DT_Mat2} THEN [v |-> 2, err |-> NoErr]
    ELSE IF dt \in {DT_IVec3, DT_Vec3, DT_Mat3, DT_Mat4x3} THEN [v |-> 3, err |-> NoErr]
    ELSE IF dt \in {DT_IVec4, DT_Vec4, DT_Mat3x4, DT_Mat4} THEN [v |-> 4, err |-> NoErr]
    ELSE [v |-> 0, err |-> ErrNoColumns]

\* NodeAttribute.IsNumeric().
IsNumeric(a) ==
    a.Type \in {DT_Byte, DT_Short, DT_Int, DT_UInt, DT_Float, DT_Double, DT_ULongLong,
                DT_Long, DT_Int8}

----------------------------------------------------------------------------
(* Go values behind the interface{} field: a dynamic type t and a value v. *)
(*   nil; []byte (byte codes); int64, uint64, uint8 (Big); float64, float32 (a *)
(*   float); []int, Ivec (Bigs); []float64, Vec (floats); Mat (rows of     *)
(*   floats); bool; string (a text); uuid.UUID (16 bytes);                 *)
(*   TranslatedString and TranslatedFSString (records).                    *)

GoNil == [t |-> "nil"]

Go(t, v) == [t |-> t, v |-> v]

\* int(n) of an int64: int is 64 bits wide on the 64-bit targets, so the
\* number is kept.
GoInt(n) == n

RECURSIVE JoinWith(_, _)
JoinWith(ts, sep) ==
    IF ts = <<>> THEN <<>>
    ELSE IF Len(ts) = 1 THEN ts[1]
    ELSE ts[1] \o sep \o JoinWith(Tail(ts), sep)

Bracket(ts) == <<"[">> \o JoinWith(ts, <<" ">>) \o <<"]">>

NatText(n) == N10Text(N10OfNat(n))

\* Ivec.String(): " 1 2"[1:]; of an empty Ivec the slice expression panics.
IvecString(v) ==
    IF v = <<>> THEN [panic |-> TRUE, s |-> <<>>]
    ELSE [panic |-> FALSE, s |-> JoinWith([i \in DOMAIN v |-> BigText(v[i])], <<" ">>)]

\* What fmt prints for a String method that panicked.
StringerPanic ==
    <<
      "%", "!", "v", "(", "P", "A", "N", "I", "C", "=", "S", "t", "r", "i",
      "n", "g", " ", "m", "e", "t", "h", "o", "d", ":", " ", "r", "u", "n",
      "t", "i", "m", "e", " ", "e", "r", "r", "o", "r", ":", " ", "s", "l",
      "i", "c", "e", " ", "b", "o", "u", "n", "d", "s", " ", "o", "u", "t",
      " ", "o", "f", " ", "r", "a", "n", "g", "e", " ", "[", "1", ":", "0",
      "]", ")"
    >>

TranslatedStringText(ts) ==
    <<"{">> \o NatText(ts.Version) \o <<" ">> \o ts.Value \o <<" ">> \o ts.Handle \o <<"}">>

\* mat.Dense as fmt prints the struct: {{Rows Cols Data Stride} capRows capCols}.
MatText(rows) ==
    LET r == NatText(Len(rows))
        c == NatText(IF rows = <<>> THEN 0 ELSE Len(rows[1]))
        data == Concat(rows)
    IN  <<"{", "{">> \o r \o <<" ">> \o c \o <<" ">>
        \o Bracket([i \in DOMAIN data |-> FormatG(data[i])]) \o <<" ">> \o c \o <<"}", " ">>
        \o r \o <<" ">> \o c \o <<"}">>

\* fmt.Sprint(v) of one value: %v by dynamic type; a Stringer (Ivec,
\* uuid.UUID) is printed by its String method, whose panic fmt recovers.
Sprint(x) ==
    CASE x.t = "nil" -> <<"<", "n", "i", "l", ">">>
      [] x.t = "[]byte" -> Bracket([i \in DOMAIN x.v |-> NatText(x.v[i])])
      [] x.t \in {"int64", "uint64", "uint8"} -> BigText(x.v)
      [] x.t \in {"float64", "float32"} -> FormatG(x.v)
      [] x.t = "[]int" -> Bracket([i \in DOMAIN x.v |-> BigText(x.v[i])])
      [] x.t \in {"[]float64", "Vec"} -> Bracket([i \in DOMAIN x.v |-> FormatG(x.v[i])])
      [] x.t = "Ivec" -> IF IvecString(x.v).panic THEN StringerPanic ELSE IvecString(x.v).s
      [] x.t = "Mat" -> MatText(x.v)
      [] x.t = "bool" -> IF x.v THEN <<"t", "r", "u", "e">> ELSE <<"f", "a", "l", "s", "e">>
      [] x.t = "string" -> x.v
      [] x.t = "uuid.UUID" -> UUIDString(x.v)
      [] x.t = "TranslatedString" -> TranslatedStringText(x.v)
      [] x.t = "TranslatedFSString" ->
            <<"{">> \o TranslatedStringText(x.v) \o <<" ", "[", "]", "}">>

----------------------------------------------------------------------------
(* NodeAttribute.FromString.                                               *)

ErrNotImplemented == [e |-> "not implemented"]

ErrVectorLength(expected, got) ==
    [e |-> "A vector of length %d was expected, got %d", expected |-> expected, got |-> got]

ErrUnknownType(dt) == [e |-> "FromString() not implemented for type %v", type |-> dt]

\* The loop over the components of a vector: the first component that does
\* not parse ends it with its error.
RECURSIVE ParseComponents(_, _, _, _)
ParseComponents(nums, isInt, i, vec) ==
    IF i > Len(nums) THEN [v |-> vec, err |-> NoErr]
    ELSE LET Component(r) ==
                 IF r.err # NoErr THEN [v |-> vec, err |-> r.err]
                 ELSE ParseComponents(nums, isInt, i + 1,
                                      Append(vec, IF isInt THEN GoInt(r.v) ELSE r.v))
         IN  Component(IF isInt THEN ParseInt(nums[i], 0, 64) ELSE ParseFloat(nums[i], 64))

\* FromStringVector without the comparison of the count with GetColumns.
FromStringVectorAnyCount(a, str, isInt) ==
    LET Parsed(r) ==
            IF r.err # NoErr THEN [na |-> a, err |-> r.err]
            ELSE [na |-> [a EXCEPT !.Value = Go(IF isInt THEN "[]int" ELSE "[]float64", r.v)],
                  err |-> NoErr]
    IN  Parsed(ParseComponents(Split(str, "."), isInt, 1, <<>>))

\* The vector cases: split on '.', compare the count with GetColumns, parse
\* every component, and only then store the vector.
FromStringVector(a, str, isInt) ==
    LET Parsed(r) ==
            IF r.err # NoErr THEN [na |-> a, err |-> r.err]
            ELSE [na |-> [a EXCEPT !.Value = Go(IF isInt THEN "[]int" ELSE "[]float64", r.v)],
                  err |-> NoErr]
        Counted(nums, length) ==
            IF length.err # NoErr THEN [na |-> a, err |-> length.err]
            ELSE IF length.v # Len(nums)
            THEN [na |-> a, err |-> ErrVectorLength(length.v, Len(nums))]
            ELSE Parsed(ParseComponents(nums, isInt, 1, <<>>))
    IN  Counted(Split(str, "."), GetColumns(a.Type))

\* FromStringMatrix storing the text instead of refusing.
FromStringMatrixStores(a, str) == [na |-> [a EXCEPT !.Value = Go("string", str)], err |-> NoErr]

\* The matrix cases: nothing is parsed or stored.
FromStringMatrix(a, str) == [na |-> a, err |-> ErrNotImplemented]

\* A scalar case "na.Value, err = parse(str); if err != nil { return err }":
\* the result is stored before the error is looked at.
Store(a, t, r) == [na |-> [a EXCEPT !.Value = Go(t, r.v)], err |-> r.err]

\* The same for ParseUint, whose number is a uint64.
StoreUint(a, r) == Store(a, "uint64", [v |-> Big(FALSE, r.v), err |-> r.err])

\* The result of na.FromString(str): the attribute afterwards and the error.
FromString(a, str0) ==
    LET str == IF IsNumeric(a) /\ str0 = <<>> THEN <<"0">> ELSE str0
        dt == a.Type
    IN  CASE dt = DT_None -> [na |-> a, err |-> NoErr]
          [] dt = DT_Byte ->
                [na |-> [a EXCEPT !.Value = Go("[]byte", [i \in DOMAIN str |-> ByteOf(str[i])])],
                 err |-> NoErr]
          [] dt = DT_Short -> Store(a, "int64", ParseInt(str, 0, 16))
          [] dt = DT_UShort -> StoreUint(a, ParseUint(str, 0, 16))
          [] dt = DT_Int -> Store(a, "int64", ParseInt(str, 0, 32))
          [] dt = DT_UInt -> StoreUint(a, ParseUint(str, 0, 16))
          [] dt = DT_Float -> Store(a, "float64", ParseFloat(str, 32))
          [] dt = DT_Double -> Store(a, "float64", ParseFloat(str, 64))
          [] dt \in IVecKinds -> FromStringVector(a, str, TRUE)
          [] dt \in VecKinds -> FromStringVector(a, str, FALSE)
          [] dt \in MatKinds -> FromStringMatrix(a, str)
          [] dt = DT_Bool -> Store(a, "bool", ParseBool(str))
          [] dt \in StringKinds -> [na |-> [a EXCEPT !.Value = Go("string", str)], err |-> NoErr]
          [] dt = DT_TranslatedString -> [na |-> a, err |-> NoErr]
          [] dt = DT_TranslatedFSString -> [na |-> a, err |-> NoErr]
          [] dt = DT_ULongLong -> [StoreUint(a, ParseUint(str, 10, 64)) EXCEPT !.err = NoErr]
          [] dt = DT_ScratchBuffer -> Store(a, "[]byte", DecodeString(str))
          [] dt \in {DT_Long, DT_Int64} -> Store(a, "int64", ParseInt(str, 10, 64))
          [] dt = DT_Int8 -> Store(a, "int64", ParseInt(str, 10, 8))
          [] dt = DT_UUID -> Store(a, "uuid.UUID", UUIDParse(str))
          [] OTHER -> [na |-> a, err |-> ErrUnknownType(dt)]

----------------------------------------------------------------------------
(* NodeAttribute.String.                                                   *)

\* The text, or panic when the type assertion of the float cases fails.
String(a) ==
    CASE a.Type = DT_ScratchBuffer ->
            IF a.Value.t = "[]byte" THEN [panic |-> FALSE, s |-> EncodeToString(a.Value.v)]
            ELSE [panic |-> FALSE, s |-> Sprint(a.Value)]
      [] a.Type = DT_Double ->
            IF a.Value.t = "float64" THEN [panic |-> FALSE, s |-> FormatFloat(a.Value.v, 64)]
            ELSE [panic |-> TRUE, s |-> <<>>]
      [] a.Type = DT_Float ->
            IF a.Value.t = "float32" THEN [panic |-> FALSE, s |-> FormatFloat(a.Value.v, 32)]
            ELSE [panic |-> TRUE, s |-> <<>>]
      [] OTHER -> [panic |-> FALSE, s |-> Sprint(a.Value)]

----------------------------------------------------------------------------
(* XML.  What MarshalXML writes is the sequence of tokens handed to the    *)
(* encoder.  A name or an attribute value is a text; the pieces the code   *)
(* concatenates are kept as the pieces of the sequence.                    *)

Attr(name, value) == [name |-> name, value |-> value]

StartElement(name, attr) == [tok |-> "start", name |-> name, attr |-> attr]

EndElement(name) == [tok |-> "end", name |-> name]

ErrVectorTooBig == [e |-> "ErrVectorTooBig"]

AxisNames == <<"x", "y", "z", "w">>

\* Vec.MarshalXML(e, start): one attribute per component, named x, y, z, w;
\* from two components on the element is renamed float<n>; a fifth
\* component ends the loop with ErrVectorTooBig before anything is written.
VecMarshalXML(v, start) ==
    LET name == IF Len(v) >= 2 THEN <<"float">> \o NatText(Len(v)) ELSE start.name
        attr == start.attr \o [i \in DOMAIN v |-> Attr(AxisNames[i], FormatFloat(v[i], 32))]
    IN  IF Len(v) > 4 THEN [err |-> ErrVectorTooBig, toks |-> <<>>]
        ELSE [err |-> NoErr, toks |-> <<StartElement(name, attr), EndElement(name)>>]

\* e.Encode(Vec(row)) for every row; the error of a row is dropped.
RECURSIVE MatRows(_)
MatRows(rows) ==
    IF rows = <<>> THEN <<>>
    ELSE VecMarshalXML(Head(rows), StartElement(<<"Vec">>, <<>>)).toks \o MatRows(Tail(rows))

\* Mat.MarshalXML(e, start): the element is renamed mat<r> or mat<r>x<c>.
MatMarshalXML(rows, start) ==
    LET r == Len(rows)
        c == IF rows = <<>> THEN 0 ELSE Len(rows[1])
        name == IF r = c THEN <<"mat">> \o NatText(r)
                ELSE <<"mat">> \o NatText(r) \o <<"x">> \o NatText(c)
    IN  [err |-> NoErr,
         toks |-> <<StartElement(name, start.attr)>> \o MatRows(rows) \o <<EndElement(name)>>]

\* TranslatedString.MarshalXML(e, start *xml.StartElement): the attributes
\* handle and version are appended to the caller's element.
TranslatedStringMarshalXML(ts, start) ==
    StartElement(start.name,
                 start.attr \o <<Attr("handle", ts.Handle), Attr("version", NatText(ts.Version))>>)

\* The dynamic types that have the method with the pointer parameter
\* (XMLMarshaler) and those that are an xml.Marshaler.
IsXMLMarshaler(x) == x.t \in {"TranslatedString", "TranslatedFSString"}

IsMarshaler(x) == x.t \in {"Vec", "Mat"}

\* e.EncodeElement(v1, start): the value's own MarshalXML writes the child;
\* a start element without a name is refused; the error is the caller's.
EncodeElement(x, start) ==
    IF start.name = <<"">> THEN [err |-> [e |-> "xml: missing name"], toks |-> <<>>]
    ELSE IF x.t = "Vec" THEN VecMarshalXML(x.v, start)
    ELSE MatMarshalXML(x.v, start)

\* NodeAttribute.MarshalXML(e, start): the tokens written and the error
\* returned, or panic when na.String() panics.
MarshalXML(a, startName) ==
    LET start0 == StartElement(startName,
                               <<Attr("id", a.Name), Attr("type", <<DataTypeString(a.Type)>>)>>)
        start1 == IF IsXMLMarshaler(a.Value)
                  THEN TranslatedStringMarshalXML(a.Value.v, start0) ELSE start0
        flat == ~(IsMarshaler(a.Value) \/ IsXMLMarshaler(a.Value))
        start2 == IF flat
                  THEN StartElement(startName, start1.attr \o <<Attr("value", String(a).s)>>)
                  ELSE start1
        child == IF IsMarshaler(a.Value)
                 THEN EncodeElement(a.Value, StartElement(<<DataTypeString(a.Type)>>, <<>>)).toks
                 ELSE <<>>
    IN  IF flat /\ String(a).panic THEN [panic |-> TRUE, err |-> NoErr, toks |-> <<>>]
        ELSE [panic |-> FALSE, err |-> NoErr,
              toks |-> <<start2>> \o child \o <<EndElement(startName)>>]

----------------------------------------------------------------------------
(* Inputs.                                                                 *)

Alphabet == {"0", "1", "-", "."}

\* The texts over Alphabet of length n.
RECURSIVE TextsOfLen(_)
TextsOfLen(n) ==
    IF n = 0 THEN {<<>>}
    ELSE {Append(t, c) : t \in TextsOfLen(n - 1), c \in Alphabet}

ShortTexts == UNION {TextsOfLen(n) : n \in 0..MaxLen}

\* Numerals at the limits of the integer kinds, and other bases.
IntegerTexts ==
    { <<"1", "2", "7">>,
      <<"1", "2", "8">>,
      <<"-", "1", "2", "8">>,
      <<"-", "1", "2", "9">>,
      <<"2", "5", "5">>,
      <<"3", "2", "7", "6", "7">>,
      <<"3", "2", "7", "6", "8">>,
      <<"-", "3", "2", "7", "6", "8">>,
      <<"-", "3", "2", "7", "6", "9">>,
      <<"6", "5", "5", "3", "5">>,
      <<"6", "5", "5", "3", "6">>,
      <<"7", "0", "0", "0", "0">>,
      <<"2", "1", "4", "7", "4", "8", "3", "6", "4", "7">>,
      <<"2", "1", "4", "7", "4", "8", "3", "6", "4", "8">>,
      <<"-", "2", "1", "4", "7", "4", "8", "3", "6", "4", "8">>,
      <<"-", "2", "1", "4", "7", "4", "8", "3", "6", "4", "9">>,
      <<"4", "2", "9", "4", "9", "6", "7", "2", "9", "5">>,
      <<"4", "2", "9", "4", "9", "6", "7", "2", "9", "6">>,
      <<"9", "2", "2", "3", "3", "7", "2", "0", "3", "6", "8", "5", "4", "7", "7", "5", "8", "0", "7">>,
      <<"9", "2", "2", "3", "3", "7", "2", "0", "3", "6", "8", "5", "4", "7", "7", "5", "8", "0", "8">>,
      <<"-", "9", "2", "2", "3", "3", "7", "2", "0", "3", "6", "8", "5", "4", "7", "7", "5", "8", "0", "8">>,
      <<"-", "9", "2", "2", "3", "3", "7", "2", "0", "3", "6", "8", "5", "4", "7", "7", "5", "8", "0", "9">>,
      <<"1", "8", "4", "4", "6", "7", "4", "4", "0", "7", "3", "7", "0", "9", "5", "5", "1", "6", "1", "5">>,
      <<"1", "8", "4", "4", "6", "7", "4", "4", "0", "7", "3", "7", "0", "9", "5", "5", "1", "6", "1", "6">>,
      <<"0", "x", "1", "0">>,
      <<"0", "8">>,
      <<"+", "5">>,
      <<"a", "b", "c">> }

\* Decimals, exponents, special values, overflow.
FloatTexts ==
    { <<"1", ".", "5">>,
      <<"0", ".", "2", "5">>,
      <<"-", "2", ".", "5">>,
      <<"1", "e", "2">>,
      <<"1", "e">>,
      <<"i", "n", "f">>,
      <<"-", "I", "n", "f", "i", "n", "i", "t", "y">>,
      <<"N", "a", "N">>,
      <<"4", "e", "3", "8">>,
      <<"2", "e", "3", "0", "8">>,
      <<"0", "x", "1", "0">>,
      <<"a", "b", "c">>,
      <<"1", "0", "0", "0", "0", "0">> }

\* Component lists, among them the examples of the specification.
VectorTexts ==
    { <<"1", ".", "2">>,
      <<"2", ".", "1">>,
      <<"1", ".", "2", ".", "3">>,
      <<"3", ".", "2", ".", "1">>,
      <<"1", ".", "2", ".", "3", ".", "4">>,
      <<"1", ".", "2", ".", "3", ".", "4", ".", "5">>,
      <<"1", ".", "0", ".", "0", ".", "5", ".", "2", ".", "0", ".", "-", "3", ".", "0">>,
      <<"1", ".", "x", ".", "3">>,
      <<"-", "7", ".", "0", "x", "1", "F", ".", "0", "1", "0">>,
      <<"1", "e", "2", ".", "5">>,
      <<"1", ",", "2", ",", "3">> }

\* Boolean literals.
BoolTexts ==
    { <<"t", "r", "u", "e">>,
      <<"f", "a", "l", "s", "e">>,
      <<"T">>,
      <<"y", "e", "s">> }

\* Base64, well-formed and corrupt.
Base64Texts ==
    { <<"M", "D", "E", "=">>,
      <<"M", "A", "=", "=">>,
      <<"M", "D", "E", "x">>,
      <<"M", "D", "E", "x", "M", "A", "=", "=">>,
      <<"M", "D", "E", "x", ".", "A", "=", "=">>,
      <<"A", "A", "A", "A">>,
      <<"M", "D", "E">> }

\* UUIDs, well-formed and malformed.
UUIDTexts ==
    { <<"0", "1", "2", "3", "4", "5", "6", "7", "-", "8", "9", "a", "b", "-", "c", "d", "e", "f", "-", "0", "1", "2", "3", "-", "4", "5", "6", "7", "8", "9", "A", "B", "C", "D", "E", "F">>,
      <<"0", "1", "2", "3", "4", "5", "6", "7", "-", "8", "9", "a", "b", "-", "c", "d", "e", "f", "-", "0", "1", "2", "3", "-", "4", "5", "6", "7", "8", "9", "A", "B", "C", "D", "E", "x">>,
      <<"0", "1", "2", "3", "4", "5", "6", "7", "8", "9", "a", "b", "c", "d", "e", "f", "0", "1", "2", "3", "4", "5", "6", "7", "8", "9", "a", "b", "c", "d", "e", "f">>,
      <<"0", "1", "2", "3", "4", "5", "6", "7", "+", "8", "9", "a", "b", "-", "c", "d", "e", "f", "-", "0", "1", "2", "3", "-", "4", "5", "6", "7", "8", "9", "a", "b", "c", "d", "e", "f">> }

\* Plain words.
WordTexts ==
    { <<"H", "e", "l", "l", "o">>,
      <<"a", " ", "b">> }

IntegerKinds == {DT_Byte, DT_Short, DT_UShort, DT_Int, DT_UInt, DT_ULongLong, DT_Long,
                 DT_Int8, DT_Int64}

\* The texts a caller passes to FromString of an attribute of kind dt.
TextsFor(dt) ==
    ShortTexts \cup
    (CASE dt \in IntegerKinds -> IntegerTexts
       [] dt \in {DT_Float, DT_Double} -> FloatTexts
       [] dt \in IVecKinds \cup VecKinds -> VectorTexts
       [] dt = DT_Bool -> BoolTexts
       [] dt = DT_ScratchBuffer -> Base64Texts
       [] dt = DT_UUID -> UUIDTexts
       [] OTHER -> WordTexts)

BigOf(n) == IF n < 0 THEN Big(TRUE, N10OfNat(0 - n)) ELSE Big(FALSE, N10OfNat(n))

Flt(n, e) == IF n < 0 THEN FltNorm(TRUE, N10OfNat(0 - n), e) ELSE FltNorm(FALSE, N10OfNat(n), e)

MinInt(bits) == Big(TRUE, Pow2[bits - 1])

MaxInt(bits) == Big(FALSE, N10Dec(Pow2[bits - 1]))

MaxUint(bits) == Big(FALSE, N10Dec(Pow2[bits]))

\* The vector <<1, 2, ..., n>>.
IntsTo(n) == [i \in 1..n |-> BigOf(i)]

FltsTo(n) == [i \in 1..n |-> Flt(i, 0)]

\* A matrix of r rows and c columns.
MatOf(r, c) == [i \in 1..r |-> [j \in 1..c |-> Flt(IF i = j THEN 1 ELSE 0, 0)]]

HelloText == <<"H", "i">>

HandleText == <<"h", "1">>

\* The values a caller assigns to the Value field of an attribute of kind
\* dt: values of the kind's width, in the Go types the code stores or
\* asserts for the kind (for DT_Byte the uint8 that DataType.String names).
TypedValues(dt) ==
    CASE dt = DT_Byte -> {Go("uint8", BigOf(0)), Go("uint8", BigOf(255))}
      [] dt = DT_Short -> {Go("int64", MinInt(16)), Go("int64", MaxInt(16))}
      [] dt = DT_UShort -> {Go("uint64", MaxUint(16))}
      [] dt = DT_Int -> {Go("int64", MinInt(32)), Go("int64", MaxInt(32))}
      [] dt = DT_UInt -> {Go("uint64", MaxUint(32)), Go("uint64", BigOf(70000))}
      [] dt = DT_Float -> {Go("float32", Flt(15, -1)), Go("float32", FltZero)}
      [] dt = DT_Double -> {Go("float64", Flt(-25, -2)), Go("float64", FltNorm(TRUE, <<>>, 0))}
      [] dt \in IVecKinds ->
            {Go("Ivec", IntsTo(GetColumns(dt).v)), Go("Ivec", <<>>),
             Go("[]int", IntsTo(GetColumns(dt).v))}
      [] dt \in VecKinds ->
            {Go("Vec", FltsTo(GetColumns(dt).v)), Go("Vec", FltsTo(5)),
             Go("[]float64", FltsTo(GetColumns(dt).v))}
      [] dt \in MatKinds -> {Go("Mat", MatOf(GetRows(dt).v, GetColumns(dt).v))}
      [] dt = DT_ULongLong -> {Go("uint64", MaxUint(64))}
      [] dt \in {DT_Long, DT_Int64} -> {Go("int64", MinInt(64)), Go("int64", MaxInt(64))}
      [] dt = DT_Int8 -> {Go("int64", MinInt(8)), Go("int64", MaxInt(8))}
      [] dt = DT_TranslatedString ->
            {Go("TranslatedString", [Version |-> 1, Value |-> HelloText, Handle |-> HandleText])}
      [] dt = DT_TranslatedFSString ->
            {Go("TranslatedFSString", [Version |-> 1, Value |-> HelloText, Handle |-> HandleText])}
      [] OTHER -> {}

AttrName == <<"P", "o", "s">>

\* The element name the encoder hands to MarshalXML.
ElementName == <<"attribute">>

----------------------------------------------------------------------------
(* The state machine: one attribute, created with a kind and no value, and *)
(* its caller.  op is the last operation, arg its text argument, err the   *)
(* error it returned, out what it returned or wrote; crashed is set by a   *)
(* panic, which ends the process.                                          *)

Init ==
    /\ \E dt \in Kinds : na = [Name |-> AttrName, Type |-> dt, Value |-> GoNil]
    /\ op = "new"
    /\ arg = <<>>
    /\ err = NoErr
    /\ out = <<>>
    /\ crashed = FALSE

Returned(name, text, e, o) ==
    /\ op' = name
    /\ arg' = text
    /\ err' = e
    /\ out' = o
    /\ crashed' = FALSE

Panicked(name, text) ==
    /\ op' = name
    /\ arg' = text
    /\ err' = NoErr
    /\ out' = <<>>
    /\ crashed' = TRUE

\* na.Value = v
SetValueAct ==
    /\ ~crashed
    /\ \E v \in TypedValues(na.Type) :
          /\ na' = [na EXCEPT !.Value = v]
          /\ Returned("SetValue", <<>>, NoErr, <<>>)

\* err = na.FromString(str)
FromStringAct ==
    /\ ~crashed
    /\ \E str \in TextsFor(na.Type) :
          \E r \in {FromString(na, str)} :
             /\ na' = r.na
             /\ Returned("FromString", str, r.err, <<>>)

\* s = na.String()
StringAct ==
    /\ ~crashed
    /\ UNCHANGED na
    /\ IF String(na).panic THEN Panicked("String", <<>>)
       ELSE Returned("String", <<>>, NoErr, String(na).s)

\* err = na.MarshalXML(e, start)
MarshalXMLAct ==
    /\ ~crashed
    /\ UNCHANGED na
    /\ LET r == MarshalXML(na, ElementName)
       IN  IF r.panic THEN Panicked("MarshalXML", <<>>)
           ELSE Returned("MarshalXML", <<>>, r.err, r.toks)

\* n, err = na.GetRows()
GetRowsAct ==
    /\ ~crashed
    /\ UNCHANGED na
    /\ Returned("GetRows", <<>>, GetRows(na.Type).err, <<GetRows(na.Type).v>>)

\* n, err = na.GetColumns()
GetColumnsAct ==
    /\ ~crashed
    /\ UNCHANGED na
    /\ Returned("GetColumns", <<>>, GetColumns(na.Type).err, <<GetColumns(na.Type).v>>)

\* b = na.IsNumeric()
IsNumericAct ==
    /\ ~crashed
    /\ UNCHANGED na
    /\ Returned("IsNumeric", <<>>, NoErr, <<IsNumeric(na)>>)

Next ==
    \/ SetValueAct
    \/ FromStringAct
    \/ StringAct
    \/ MarshalXMLAct
    \/ GetRowsAct
    \/ GetColumnsAct
    \/ IsNumericAct

Spec == Init /\ [][Next]_vars

----------------------------------------------------------------------------
(* Properties.                                                             *)

NumericScalarKinds ==
    {DT_Byte, DT_Short, DT_UShort, DT_Int, DT_UInt, DT_Float, DT_Double, DT_ULongLong,
     DT_Int64, DT_Long, DT_Int8}

VectorKinds == IVecKinds \cup VecKinds

TranslatedKinds == {DT_TranslatedString, DT_TranslatedFSString}

\* C1: a FromString that returns an error leaves the attribute (Name, Type
\* and Value) as it was before the call, whatever calls came before.
C1_FailedParseKeepsValue ==
    [][(op' = "FromString" /\ err' # NoErr) => na' = na]_vars

\* The width and the sign the name of an integer kind promises.
KindBits(dt) ==
    CASE dt \in {DT_Byte, DT_Int8} -> 8
      [] dt \in {DT_Short, DT_UShort} -> 16
      [] dt \in {DT_Int, DT_UInt} -> 32
      [] OTHER -> 64

KindSigned(dt) == dt \in {DT_Short, DT_Int, DT_Long, DT_Int64, DT_Int8}

\* text is a numeral, in decimal or in a notation strconv reads by prefix,
\* of a number of the kind's width and sign.
WellFormedNumeral(dt, text) ==
    IF dt \in {DT_Float, DT_Double}
    THEN ParseFloat(text, IF dt = DT_Float THEN 32 ELSE 64).err = NoErr
    ELSE \E base \in {0, 10} :
            LET r == ParseInt(text, base, 64)
                u == ParseUint(text, base, 64)
            IN  IF KindSigned(dt)
                THEN /\ r.err = NoErr
                     /\ IF r.v.neg THEN N10Cmp(r.v.mag, Pow2[KindBits(dt) - 1]) <= 0
                        ELSE N10Cmp(r.v.mag, Pow2[KindBits(dt) - 1]) < 0
                ELSE u.err = NoErr /\ N10Cmp(u.v, Pow2[KindBits(dt)]) < 0

\* C2: for a numeric scalar kind FromString returns an error on every text
\* that is not a numeral of the kind or denotes a number outside its range
\* (the empty text, read as "0", aside).
C2_MalformedNumeralFails ==
    (op = "FromString" /\ na.Type \in NumericScalarKinds /\ arg # <<>>
       /\ ~WellFormedNumeral(na.Type, arg))
    => err # NoErr

\* C3: no operation ends the process.  (Every value the float cases of
\* String reject is the unset value or one FromString stored.)
C3_NoOperationAborts == ~crashed

\* C4: the text String gives for the value of a numeric scalar attribute is
\* parsed back by FromString without error, and String of the parsed value
\* is the same text.
C4_RoundTrip ==
    (op = "String" /\ na.Type \in NumericScalarKinds /\ na.Value # GoNil)
    => /\ ~crashed
       /\ FromString(na, out).err = NoErr
       /\ ~String(FromString(na, out).na).panic
       /\ String(FromString(na, out).na).s = out

EmptyIsZeroKinds ==
    {DT_Byte, DT_Short, DT_UShort, DT_Int, DT_UInt, DT_Float, DT_Double, DT_ULongLong,
     DT_Long, DT_Int8}

\* C5: for the numeric scalar kinds FromString("") and FromString("0") end
\* with the same error and the same stored value.
C5_EmptyIsZero ==
    na.Type \in EmptyIsZeroKinds => FromString(na, <<>>) = FromString(na, <<"0">>)

ComponentParse(dt, text) ==
    IF dt \in IVecKinds THEN ParseInt(text, 0, 64) ELSE ParseFloat(text, 64)

OneTwoThree == <<"1", ".", "2", ".", "3">>

EightComponents == <<"1", ".", "0", ".", "0", ".", "5", ".", "2", ".", "0", ".", "-", "3", ".", "0">>

\* C6: for a vector kind FromString succeeds exactly when the text has
\* GetColumns(kind) components between its '.' and every component parses;
\* it then stores the parsed components in order; any other count is the
\* error that reports the expected and the actual count.
C6_VectorParse ==
    (op = "FromString" /\ na.Type \in VectorKinds)
    => LET parts == Split(arg, ".")
           n == GetColumns(na.Type).v
           parses == \A i \in DOMAIN parts : ComponentParse(na.Type, parts[i]).err = NoErr
       IN  /\ JoinWith(parts, <<".">>) = arg
           /\ \A i \in DOMAIN parts : "." \notin Range(parts[i])
           /\ n = IF na.Type \in {DT_IVec2, DT_Vec2} THEN 2
                  ELSE IF na.Type \in {DT_IVec3, DT_Vec3} THEN 3 ELSE 4
           /\ err = NoErr <=> (Len(parts) = n /\ parses)
           /\ Len(parts) # n => err = ErrVectorLength(n, Len(parts))
           /\ err = NoErr =>
                 /\ na.Value.t = IF na.Type \in IVecKinds THEN "[]int" ELSE "[]float64"
                 /\ Len(na.Value.v) = n
                 /\ \A i \in 1..n : na.Value.v[i] = ComponentParse(na.Type, parts[i]).v
           /\ (na.Type = DT_IVec3 /\ arg = OneTwoThree) =>
                 (err = NoErr /\ na.Value = Go("[]int", <<BigOf(1), BigOf(2), BigOf(3)>>))
           /\ (na.Type = DT_IVec3 /\ arg = <<"1", ".", "2">>) => err = ErrVectorLength(3, 2)
           /\ (na.Type = DT_Vec4 /\ arg = EightComponents) => err = ErrVectorLength(4, 8)

\* ivec3 "1.2.3" has been parsed to [1 2 3].
C6_Witness ==
    /\ op = "FromString"
    /\ na.Type = DT_IVec3
    /\ arg = OneTwoThree
    /\ err = NoErr
    /\ na.Value = Go("[]int", IntsTo(3))

\* C7: for a matrix kind FromString returns the 'not implemented' error on
\* every text and leaves the attribute as it was.
C7_MatrixNotImplemented ==
    [][(op' = "FromString" /\ na.Type \in MatKinds)
          => (err' = ErrNotImplemented /\ na' = na)]_vars

\* FromString has refused a text for a matrix attribute that holds a matrix.
C7_Witness ==
    /\ op = "FromString"
    /\ na.Type \in MatKinds
    /\ arg # <<>>
    /\ err = ErrNotImplemented
    /\ na.Value.t = "Mat"

HasAttr(el, name) == \E i \in DOMAIN el.attr : el.attr[i].name = name

AttrValue(el, name) == el.attr[CHOOSE i \in DOMAIN el.attr : el.attr[i].name = name].value

ComponentText(x, i) ==
    IF x.t \in {"[]int", "Ivec"} THEN BigText(x.v[i]) ELSE FormatFloat(x.v[i], 32)

\* C8: MarshalXML of a vector attribute of n components writes an element
\* with the attributes id and type and the first n of x, y, z, w holding
\* the components in order, and without the attribute value.
C8_VectorXML ==
    (/\ op = "MarshalXML"
     /\ na.Type \in VectorKinds
     /\ na.Value # GoNil
     /\ Len(na.Value.v) \in 1..4)
    => \E k \in DOMAIN out :
          /\ out[k].tok = "start"
          /\ HasAttr(out[k], "id") /\ AttrValue(out[k], "id") = na.Name
          /\ HasAttr(out[k], "type")
          /\ ~HasAttr(out[k], "value")
          /\ \A i \in 1..Len(na.Value.v) :
                /\ HasAttr(out[k], AxisNames[i])
                /\ AttrValue(out[k], AxisNames[i]) = ComponentText(na.Value, i)

\* C9: MarshalXML of an attribute whose vector has more than 4 components
\* returns an error.
C9_VectorTooLargeReported ==
    (/\ op = "MarshalXML"
     /\ na.Value.t \in {"Vec", "Ivec", "[]int", "[]float64"}
     /\ Len(na.Value.v) > 4)
    => err # NoErr

KindValueType(dt) == IF dt = DT_TranslatedString THEN "TranslatedString" ELSE "TranslatedFSString"

\* C10: for the translated string kinds FromString(text) succeeds and the
\* value afterwards has the display text text and the handle and version of
\* before (an empty handle and version 0 when there was no value).
C10_TranslatedDisplayText ==
    [][(op' = "FromString" /\ na.Type \in TranslatedKinds)
          => /\ err' = NoErr
             /\ na'.Value.t = KindValueType(na.Type)
             /\ na'.Value.v.Value = arg'
             /\ IF na.Value = GoNil
                THEN na'.Value.v.Handle = <<>> /\ na'.Value.v.Version = 0
                ELSE /\ na'.Value.v.Handle = na.Value.v.Handle
                     /\ na'.Value.v.Version = na.Value.v.Version]_vars

====
